---- MODULE Spec2Model ----
(***************************************************************************)
(* unity-rs: the type-tree-guided deserializer of src/src/object.rs and    *)
(* the DXT1 / DXT5 block decoders of src/texture_decoder.                  *)
(*                                                                         *)
(* The deserializer is a recursive walk that a serde receiver drives       *)
(* (visitor, seeds).  It is modelled as a stack machine: one frame per     *)
(* deserialize_any invocation that handed an access object (MapAccess,     *)
(* SeqAccess, StructAccess) to the receiver.  A handler that calls back    *)
(* into deserialize_any is split at the call: the part before it, and the  *)
(* part after the nested call has returned.                                *)
(*                                                                         *)
(* Node indices are 0-based as in the source; NodeAt converts.             *)
(***************************************************************************)
EXTENDS Integers, Sequences, FiniteSets, TLC

(***************************************************************************)
(* Bounds of the model.                                                    *)
(***************************************************************************)
\* most fields of a type tree
MaxFields == 3
\* most bytes of an object's slice
MaxBuf == 9
\* largest element count / length header the input holds (the smallest is -1)
MaxCount == 2
\* a receiver asks one access object for at most this many entries
MaxReq == MaxCount

(***************************************************************************)
(* Program constants.                                                      *)
(***************************************************************************)
\* meta_flag & 0x4000
AlignBit == 16384
\* reader.align(4)
AlignTo == 4

Min(a, b) == IF a < b THEN a ELSE b
Max(a, b) == IF a > b THEN a ELSE b
Reverse(s) == [k \in 1..Len(s) |-> s[Len(s) + 1 - k]]

RECURSIVE Pow(_, _)
Pow(b, e) == IF e = 0 THEN 1 ELSE b * Pow(b, e - 1)

(***************************************************************************)
(* TypeTreeNode and the type trees the model walks.                        *)
(***************************************************************************)
Names ==
    <<"m_a", "m_b", "m_c", "m_d", "m_e", "m_f", "m_g", "m_h", "m_i", "m_j", "m_k", "m_l",
      "m_m", "m_n", "m_o", "m_p", "m_q", "m_r", "m_s", "m_t", "m_u", "m_v", "m_w", "m_x">>

Node(l, t) == [level |-> l, type |-> t, name |-> "", meta_flag |-> 0]

NodeAt(ns, i) == ns[i + 1]

HasAlignBit(flag) == (flag \div AlignBit) % 2 = 1

\* a string field; the spec gives it three nodes (string, Array, char)
StringShape(l) == <<Node(l, "string"), Node(l + 1, "Array"), Node(l + 2, "char")>>

\* a byte blob; the spec gives it two nodes (TypelessData and its size child)
TypelessShape(l) == <<Node(l, "TypelessData"), Node(l + 1, "int")>>

\* the scalar leaves the walked trees use (the whole table is ScalarKind)
LeafTypes == {"UInt8"}

\* the fields of a shape: its nodes but for the ones a container brings along
Fields(shape) ==
    Cardinality({k \in 1..Len(shape) :
                   /\ shape[k].type \notin {"Array", "pair", "char"}
                   /\ ~(k > 1 /\ shape[k].type = "int")})

RECURSIVE Subtrees(_, _), Forests(_, _)
\* the well-formed subtrees of at most n fields rooted at level l (the Array,
\* size, pair and char nodes a container brings with it are not counted)
Subtrees(n, l) ==
    IF n < 1 THEN {}
    ELSE {<<Node(l, t)>> : t \in LeafTypes}
         \cup {StringShape(l), TypelessShape(l)}
         \cup {<<Node(l, "vector"), Node(l + 1, "Array"), Node(l + 2, "int")>> \o e :
                 e \in Subtrees(n - 1, l + 2)}
         \cup UNION {{<<Node(l, "map"), Node(l + 1, "Array"), Node(l + 2, "int"),
                        Node(l + 2, "pair")>> \o k \o v :
                          v \in Subtrees(n - 1 - Fields(k), l + 3)} :
                      k \in Subtrees(n - 2, l + 3)}
         \cup {<<Node(l, "Base")>> \o f : f \in Forests(n - 1, l + 1)}

\* the sequences of sibling subtrees, at most n fields in all
Forests(n, l) ==
    {<<>>} \cup UNION {{s \o f : f \in Forests(n - Fields(s), l)} : s \in Subtrees(n, l)}

\* names by position, the alignment bit on the nodes of F
Decorate(shape, F) ==
    [k \in 1..Len(shape) |->
        [shape[k] EXCEPT !.name = Names[k],
                         !.meta_flag = IF k \in F THEN AlignBit ELSE 0]]

\* the trees walked: every shape, with the alignment bit on no node or on one
TypeTrees ==
    UNION {{Decorate(s, F) : F \in {{}} \cup {{k} : k \in 1..Len(s)}} :
             s \in Subtrees(MaxFields, 0) \cup {<<>>}}

(***************************************************************************)
(* get_level_length: the span of the subtree at idx (0 when out of range). *)
(***************************************************************************)
get_level_length_inclusive(ns, idx) ==
    IF idx >= Len(ns) THEN 0
    ELSE LET first  == NodeAt(ns, idx)
             others == Len(ns) - idx - 1
         IN  Cardinality({k \in 1..others :
                            \A j \in 1..k : NodeAt(ns, idx + j).level >= first.level}) + 1

get_level_length(ns, idx) ==
    IF idx >= Len(ns) THEN 0
    ELSE LET first  == NodeAt(ns, idx)
             others == Len(ns) - idx - 1
         IN  Cardinality({k \in 1..others :
                            \A j \in 1..k : NodeAt(ns, idx + j).level > first.level}) + 1

(***************************************************************************)
(* Reader (crate::reader, not among the sources: modelled from the spec's  *)
(* section 4.1).  A reader is [pos, data, hi]: the offset, the bytes of the *)
(* slice the cursor has met so far, and the most bytes the slice can hold  *)
(* given the reads that have failed.  The slice is fixed when the reader   *)
(* is made; since the cursor only moves forward, a byte is drawn when the  *)
(* cursor first meets it, and the slice's length is narrowed as reads      *)
(* succeed (it is at least Len(data)) and fail (it is at most hi).         *)
(***************************************************************************)
Orders == {"LittleEndian", "BigEndian"}

\* the values a byte of payload takes in the walked inputs
FillBytes == {97}

Zeros(n) == [k \in 1..n |-> 0]

\* the low byte k of a non-negative m
ByteOf(m, k) == (m \div Pow(256, k)) % 256

\* the four bytes of the i32 v (two's complement) in byte order ord
I32Bytes(v, ord) ==
    LET be == [k \in 1..4 |-> IF v >= 0 THEN ByteOf(v, 4 - k)
                                        ELSE 255 - ByteOf(-v - 1, 4 - k)]
    IN  IF ord = "BigEndian" THEN be ELSE Reverse(be)

\* what a field of w bytes not met before may hold
Fresh(w, ord) ==
    IF w = 4 THEN {I32Bytes(v, ord) : v \in -1..MaxCount}
    ELSE [1..w -> FillBytes]

\* the bytes of a field, most significant first
Digits(bytes, ord) == IF ord = "BigEndian" THEN bytes ELSE Reverse(bytes)

\* read_i32: the signed value of four bytes
DecodeI32(bytes, ord) ==
    LET d == Digits(bytes, ord)
    IN  IF d[1] >= 128
        THEN (d[1] - 255) * 16777216 + (d[2] - 255) * 65536 + (d[3] - 255) * 256
             + (d[4] - 255) - 1
        ELSE d[1] * 16777216 + d[2] * 65536 + d[3] * 256 + d[4]

\* read w bytes at the cursor: every outcome [ok, bytes, r]
Read(R, w, ord) ==
    LET known == Min(Len(R.data) - R.pos, w)
        need  == w - known
        head  == SubSeq(R.data, R.pos + 1, R.pos + known)
        draws == IF R.pos + w > R.hi THEN {}
                 ELSE IF need = 0 THEN {<<>>}
                 ELSE IF known = 0 THEN Fresh(w, ord)
                 ELSE [1..need -> FillBytes]
    IN  {[ok |-> TRUE, bytes |-> head \o f,
          r |-> [R EXCEPT !.pos = R.pos + w, !.data = R.data \o f]] : f \in draws}
        \cup
        (IF need > 0
         THEN {[ok |-> FALSE, bytes |-> <<>>,
                r |-> [R EXCEPT !.hi = Min(R.hi, R.pos + w - 1)]]}
         ELSE {})

\* align(k): every outcome [ok, r]
Align(R, k) ==
    LET target == ((R.pos + k - 1) \div k) * k
        need   == Max(target - Len(R.data), 0)
    IN  (IF target <= R.hi
         THEN {[ok |-> TRUE,
                r |-> [R EXCEPT !.pos = target, !.data = R.data \o Zeros(need)]]}
         ELSE {})
        \cup
        (IF need > 0
         THEN {[ok |-> FALSE, r |-> [R EXCEPT !.hi = Min(R.hi, target - 1)]]}
         ELSE {})

\* the bytes one read_<kind> consumes
Width(kind) ==
    CASE kind \in {"i8", "u8", "bool"} -> 1
      [] kind \in {"i16", "u16"} -> 2
      [] kind \in {"i32", "u32", "f32"} -> 4
      [] kind \in {"i64", "u64", "f64"} -> 8

\* the value read_<kind> returns: its digits base 256, most significant first
\* (read_bool: any non-zero byte is true)
ReadValue(kind, bytes, ord) ==
    IF kind = "bool" THEN <<IF bytes[1] # 0 THEN 1 ELSE 0>> ELSE Digits(bytes, ord)

\* read_aligned_string: a u32 length, that many bytes, then align(4)
\* (a length with the top bit set is beyond every slice)
ReadAlignedString(R, ord) ==
    UNION {IF ~h.ok THEN {[ok |-> FALSE, r |-> h.r]}
           ELSE IF DecodeI32(h.bytes, ord) < 0 THEN {[ok |-> FALSE, r |-> h.r]}
           ELSE UNION {IF ~b.ok THEN {[ok |-> FALSE, r |-> b.r]}
                       ELSE {[ok |-> a.ok, r |-> a.r] : a \in Align(b.r, AlignTo)} :
                         b \in Read(h.r, DecodeI32(h.bytes, ord), ord)} :
             h \in Read(R, 4, ord)}

\* read_u8_list(n): n bytes (n is a usize: a negative i32 cast to it is
\* beyond every slice)
ReadU8List(R, n, ord) ==
    IF n < 0 THEN {[ok |-> FALSE, r |-> x.r] : x \in {y \in Read(R, MaxBuf + 1, ord) : ~y.ok}}
    ELSE {[ok |-> x.ok, r |-> x.r] : x \in Read(R, n, ord)}

(***************************************************************************)
(* Deserializer::deserialize_any: the dispatch at nodes[index].            *)
(***************************************************************************)
\* the visit_<kind> (and read_<kind>) a scalar type name selects
ScalarKindCharSigned(t) ==
    CASE t \in {"SInt8", "char"} -> "i8"
      [] t = "UInt8" -> "u8"
      [] t \in {"short", "SInt16"} -> "i16"
      [] t \in {"UInt16", "unsigned short"} -> "u16"
      [] t \in {"int", "SInt32"} -> "i32"
      [] t \in {"UInt32", "unsigned int", "Type*"} -> "u32"
      [] t \in {"long long", "SInt64"} -> "i64"
      [] t \in {"UInt64", "unsigned long long", "FileSize"} -> "u64"
      [] t = "float" -> "f32"
      [] t = "double" -> "f64"
      [] t = "bool" -> "bool"
      [] OTHER -> "none"

ScalarKind(t) ==
    CASE t = "SInt8" -> "i8"
      [] t \in {"UInt8", "char"} -> "u8"
      [] t \in {"short", "SInt16"} -> "i16"
      [] t \in {"UInt16", "unsigned short"} -> "u16"
      [] t \in {"int", "SInt32"} -> "i32"
      [] t \in {"UInt32", "unsigned int", "Type*"} -> "u32"
      [] t \in {"long long", "SInt64"} -> "i64"
      [] t \in {"UInt64", "unsigned long long", "FileSize"} -> "u64"
      [] t = "float" -> "f32"
      [] t = "double" -> "f64"
      [] t = "bool" -> "bool"
      [] OTHER -> "none"

\* the arm of the match a type name takes
Arm(ns, i) ==
    LET t == NodeAt(ns, i).type
    IN  CASE ScalarKind(t) # "none" -> "scalar"
          [] t = "string" -> "string"
          [] t = "TypelessData" -> "TypelessData"
          [] t = "map" -> "map"
          [] OTHER -> IF i + 1 < Len(ns) /\ NodeAt(ns, i + 1).type = "Array"
                      THEN "seq" ELSE "struct"

\* the align flag once the arm has run: the node's own bit, or for a map and
\* an Array-child record the bit of the next node
EffectiveAlignOwnFlag(ns, i) == HasAlignBit(NodeAt(ns, i).meta_flag)

EffectiveAlign(ns, i) ==
    \/ HasAlignBit(NodeAt(ns, i).meta_flag)
    \/ /\ Arm(ns, i) \in {"map", "seq"}
       /\ i + 1 < Len(ns)
       /\ HasAlignBit(NodeAt(ns, i + 1).meta_flag)

\* `as usize` of an i32: a negative count becomes 2^64 + n, which only ever
\* meets counters far below it; UsizeWrap stands for 2^64
UsizeWrap == 1073741824
AsUsize(n) == IF n >= 0 THEN n ELSE UsizeWrap + n

\* the element template of an Array-child record
SeqOffset(i) == i + 3
SeqEndOffset(ns, i) == i + get_level_length(ns, i) - 1

\* the key and value templates of a map
MapFirst(i) == i + 4

MapSecondAdjacent(ns, i) == MapFirst(i) + 1

MapSecond(ns, i) == get_level_length(ns, i + 4) + MapFirst(i)
MapIndex(ns, i) == i + (get_level_length(ns, i) - 1)

\* the last node of a record, and its first child
StructEnd(ns, i) == i + get_level_length(ns, i) - 1
StructStart(i) == i + 1

\* the index after a string and after a TypelessData
StringIndex(i) == i + 3
TypelessIndex(i) == i + 2

\* what a receiver answers when a value is visited
Verdicts == {"ok", "Custom"}

NoVisit == [kind |-> "none", value |-> <<>>]

\* an access object handed to the receiver, with the deserialize_any call
\* that made it.  hist and seen are history: the nested dispatches made for
\* this access (tag k, v or e, and the node index), and de.index as each
\* request found it.
NoFrame ==
    [kind |-> "none", node |-> 0, align |-> FALSE, first |-> 0, second |-> 0,
     offset |-> 0, end_offset |-> 0, end |-> 0, finish |-> FALSE, index |-> 0,
     size |-> 0, count |-> 0, saved |-> 0, pc |-> "visit", want |-> "key",
     ended |-> FALSE, val |-> "ok", hist |-> <<>>, seen |-> <<>>]

\* one way a dispatch goes before the receiver gets control back.  errs and
\* late are history: the errors raised on the way, in order, and the reader
\* operations performed after an error had been raised.
\* aligns and before: whether the call's own align(4) ran, and the offset it
\* found.
Out(R, idx, res, frame, visit, aligns, before, errs, late) ==
    [r |-> R, index |-> idx, result |-> res, frame |-> frame, visit |-> visit,
     aligns |-> aligns, before |-> before, errs |-> errs, late |-> late]

\* the end of deserialize_any: align(4) if the flag is set, then val
Epilogue(R, align, val) ==
    IF align
    THEN {[r |-> a.r, result |-> IF a.ok THEN val ELSE "BufEof", aligns |-> 1,
           before |-> R.pos,
           errs |-> IF a.ok THEN <<>> ELSE <<"BufEof">>,
           late |-> IF val = "ok" THEN 0 ELSE 1] :
            a \in Align(R, AlignTo)}
    ELSE {[r |-> R, result |-> val, aligns |-> 0, before |-> R.pos, errs |-> <<>>,
           late |-> 0]}

\* the errors a receiver's verdict raises
Raised(v) == IF v = "ok" THEN <<>> ELSE <<v>>

\* a value is visited, then the end of deserialize_any
Visited(R, idx, align, visit) ==
    UNION {{Out(t.r, idx, t.result, NoFrame, visit, t.aligns, t.before,
                  Raised(v) \o t.errs, t.late) :
              t \in Epilogue(R, align, v)} :
             v \in Verdicts}

\* a `?` on the reader returns at once
Eof(R, idx) == Out(R, idx, "BufEof", NoFrame, NoVisit, 0, R.pos, <<"BufEof">>, 0)

ScalarArm(ns, i, R, ord) ==
    LET kind == ScalarKind(NodeAt(ns, i).type)
    IN  UNION {IF ~x.ok THEN {Eof(x.r, i)}
               ELSE Visited(x.r, i, EffectiveAlign(ns, i),
                            [kind |-> kind, value |-> ReadValue(kind, x.bytes, ord)]) :
                 x \in Read(R, Width(kind), ord)}

StringArm(ns, i, R, ord) ==
    UNION {IF ~x.ok THEN {Eof(x.r, StringIndex(i))}
           ELSE Visited(x.r, StringIndex(i), EffectiveAlign(ns, i),
                        [kind |-> "string", value |-> <<>>]) :
             x \in ReadAlignedString(R, ord)}

TypelessArm(ns, i, R, ord) ==
    UNION {IF ~h.ok THEN {Eof(h.r, i)}
           ELSE UNION {IF ~x.ok THEN {Eof(x.r, i)}
                       ELSE Visited(x.r, TypelessIndex(i), EffectiveAlign(ns, i),
                                    [kind |-> "byte_buf", value |-> <<>>]) :
                         x \in ReadU8List(h.r, DecodeI32(h.bytes, ord), ord)} :
             h \in Read(R, 4, ord)}

MapArm(ns, i, R, ord) ==
    {IF ~h.ok THEN Eof(h.r, MapIndex(ns, i))
     ELSE Out(h.r, MapIndex(ns, i), "ok",
              [NoFrame EXCEPT !.kind = "map", !.node = i,
                              !.align = EffectiveAlign(ns, i),
                              !.first = MapFirst(i), !.second = MapSecond(ns, i),
                              !.count = DecodeI32(h.bytes, ord),
                              !.size = AsUsize(DecodeI32(h.bytes, ord)),
                              !.want = "key"],
              NoVisit, 0, h.r.pos, <<>>, 0) :
       h \in Read(R, 4, ord)}

SeqArm(ns, i, R, ord) ==
    {IF ~h.ok THEN Eof(h.r, i)
     ELSE Out(h.r, i, "ok",
              [NoFrame EXCEPT !.kind = "seq", !.node = i,
                              !.align = EffectiveAlign(ns, i),
                              !.offset = SeqOffset(i),
                              !.end_offset = SeqEndOffset(ns, i),
                              !.count = DecodeI32(h.bytes, ord),
                              !.size = AsUsize(DecodeI32(h.bytes, ord)),
                              !.want = "elem"],
              NoVisit, 0, h.r.pos, <<>>, 0) :
       h \in Read(R, 4, ord)}

StructArm(ns, i, R) ==
    {Out(R, StructStart(i), "ok",
         [NoFrame EXCEPT !.kind = "struct", !.node = i,
                         !.align = EffectiveAlign(ns, i),
                         !.end = StructEnd(ns, i), !.want = "key"],
         NoVisit, 0, R.pos, <<>>, 0)}

\* every way deserialize_any goes, from its call to the point where it has
\* returned or has handed an access object to the receiver
AnyOutcomes(ns, i, R, ord) ==
    IF i >= Len(ns) THEN {Out(R, i, "NodeEof", NoFrame, NoVisit, 0, R.pos, <<"NodeEof">>, 0)}
    ELSE CASE Arm(ns, i) = "scalar" -> ScalarArm(ns, i, R, ord)
           [] Arm(ns, i) = "string" -> StringArm(ns, i, R, ord)
           [] Arm(ns, i) = "TypelessData" -> TypelessArm(ns, i, R, ord)
           [] Arm(ns, i) = "map" -> MapArm(ns, i, R, ord)
           [] Arm(ns, i) = "seq" -> SeqArm(ns, i, R, ord)
           [] OTHER -> StructArm(ns, i, R)

(***************************************************************************)
(* State.                                                                  *)
(*   nodes, order   the object's type tree and byte order                  *)
(*   reader         the Reader of ObjectInfo::get_reader                   *)
(*   index          Deserializer.index                                     *)
(*   stack          the access objects in the receiver's hands, outermost  *)
(*                  first                                                  *)
(*   ctl            where control is: "call" (deserialize_any is entered), *)
(*                  "visit" (the receiver holds the top access object),    *)
(*                  "leave" (visit_map / visit_seq has returned),          *)
(*                  "ret" (deserialize_any has returned), "done"           *)
(*   result         what the deserialize_any that returned last returned   *)
(*   last           history: that call's node, visit event and frame       *)
(*   errs, late     history: see Out                                       *)
(*   outcome        how ObjectInfo::read_type_tree ended                   *)
(*   fmt, block     the texture format and the bytes of one of its blocks  *)
(*   pixels         the sixteen RGBA pixels decode_block returned for it   *)
(*   image          one call of DXT1::decode or DXT5::decode: its          *)
(*                  arguments, its loop counter, its buffer and its end    *)
(*   pass           history: which decode of the object this is, and how   *)
(*                  the one before it ended                                *)
(***************************************************************************)
VARIABLES nodes, order, reader, index, stack, ctl, result, last, errs, late, outcome,
          fmt, block, pixels, image, pass, length

devars == <<nodes, order, reader, index, stack, ctl, result, last, errs, late, outcome, pass,
           length>>
dxtvars == <<fmt, block, pixels, image>>
vars == <<devars, dxtvars>>

\* no decode of an image is under way
NoImage == [pc |-> "idle"]

NoLast ==
    [node |-> 0, result |-> "none", visit |-> NoVisit, aligns |-> 0,
     before |-> 0, frame |-> NoFrame]

\* the first decode of the object
NoPass == [n |-> 1, last1 |-> NoLast, data1 |-> <<>>]

\* get_level_length has not been called on its own
NoLength == [called |-> FALSE, idx |-> 0, len |-> 0]

\* read_type_tree up to the call T::deserialize(&mut de)
Init ==
    /\ nodes \in TypeTrees
    /\ order = "LittleEndian"
    /\ reader = [pos |-> 0, data |-> <<>>, hi |-> MaxBuf]
    /\ index = 0
    /\ stack = <<>>
    /\ ctl = "call"
    /\ result = "none"
    /\ last = NoLast
    /\ errs = <<>>
    /\ late = 0
    /\ outcome = "running"
    /\ pass = NoPass
    /\ length = NoLength
    /\ fmt = "none" /\ block = <<>> /\ pixels = <<>> /\ image = NoImage

Top == stack[Len(stack)]
SetTop(f) == [stack EXCEPT ![Len(stack)] = f]
Pop == SubSeq(stack, 1, Len(stack) - 1)
Ev(tag, at) == [tag |-> tag, at |-> at]

\* deserialize_any, from its call to its return or to the visit_map /
\* visit_seq that hands the receiver an access object
DeserializeAny ==
    /\ ctl = "call"
    /\ \E o \in AnyOutcomes(nodes, index, reader, order) :
         /\ reader' = o.r
         /\ index' = o.index
         /\ errs' = errs \o o.errs
         /\ late' = late + o.late
         /\ IF o.frame.kind = "none"
            THEN /\ ctl' = "ret"
                 /\ result' = o.result
                 /\ stack' = stack
                 /\ last' = [node |-> index, result |-> o.result, visit |-> o.visit,
                             aligns |-> o.aligns,
                             before |-> o.before,
                             frame |-> NoFrame]
            ELSE /\ ctl' = "visit"
                 /\ stack' = Append(stack, o.frame)
                 /\ UNCHANGED <<result, last>>
    /\ UNCHANGED <<nodes, order, outcome, dxtvars, pass, length>>

\* the receiver returns from visit_map / visit_seq of its own accord: with a
\* value at any point (it need not take every entry), or with an error of its
\* own before it asked for anything (the shape is not the one it expects) or
\* once it has been told there is nothing left (a field is missing, the
\* length is wrong); a key it has taken it follows with the value
VisitReturn ==
    /\ ctl = "visit" /\ Top.want # "value"
    /\ \E v \in Verdicts :
         /\ v = "Custom" => (Top.ended \/ Top.seen = <<>>)
         /\ stack' = SetTop([Top EXCEPT !.val = v])
         /\ errs' = errs \o Raised(v)
    /\ ctl' = "leave"
    /\ UNCHANGED <<nodes, order, reader, index, result, last, late, outcome, dxtvars, pass, length>>

\* the end of the deserialize_any whose visit_map / visit_seq has returned
AnyReturn ==
    /\ ctl = "leave"
    /\ \E t \in Epilogue(reader, Top.align, Top.val) :
         /\ reader' = t.r
         /\ result' = t.result
         /\ errs' = errs \o t.errs
         /\ late' = late + t.late
         /\ last' = [node |-> Top.node, result |-> t.result, visit |-> NoVisit,
                     aligns |-> t.aligns, before |-> t.before, frame |-> Top]
    /\ stack' = Pop
    /\ ctl' = "ret"
    /\ UNCHANGED <<nodes, order, index, outcome, dxtvars, pass, length>>

(***************************************************************************)
(* MapAccess (the access object of a "map" node).                          *)
(***************************************************************************)
\* next_key_seed up to seed.deserialize(&mut *self.de)
MapNextKey ==
    /\ ctl = "visit" /\ Top.kind = "map" /\ Top.want = "key" /\ ~Top.ended
    /\ IF Top.index >= Top.size
       THEN /\ stack' = SetTop([Top EXCEPT !.ended = TRUE, !.seen = Append(@, index)])
            /\ UNCHANGED <<index, ctl>>
       ELSE /\ Top.index < MaxReq
            /\ stack' = SetTop([Top EXCEPT !.saved = index, !.pc = "key",
                                           !.seen = Append(@, index),
                                           !.hist = Append(@, Ev("k", Top.first))])
            /\ index' = Top.first
            /\ ctl' = "call"
    /\ UNCHANGED <<nodes, order, reader, result, last, errs, late, outcome, dxtvars, pass, length>>

\* next_key_seed after the key's deserialize_any has returned
MapKeyReturn ==
    /\ ctl = "ret" /\ stack # <<>> /\ Top.kind = "map" /\ Top.pc = "key"
    /\ index' = Top.saved
    /\ IF result = "ok"
       THEN /\ stack' = SetTop([Top EXCEPT !.pc = "visit", !.want = "value"])
            /\ ctl' = "visit"
       ELSE /\ stack' = SetTop([Top EXCEPT !.pc = "visit", !.val = result])
            /\ ctl' = "leave"
    /\ UNCHANGED <<nodes, order, reader, result, last, errs, late, outcome, dxtvars, pass, length>>

\* next_value_seed up to seed.deserialize(&mut *self.de)
MapNextValue ==
    /\ ctl = "visit" /\ Top.kind = "map" /\ Top.want = "value"
    /\ stack' = SetTop([Top EXCEPT !.saved = index, !.pc = "value",
                                   !.seen = Append(@, index),
                                   !.hist = Append(@, Ev("v", Top.second))])
    /\ index' = Top.second
    /\ ctl' = "call"
    /\ UNCHANGED <<nodes, order, reader, result, last, errs, late, outcome, dxtvars, pass, length>>

\* next_value_seed after the value's deserialize_any has returned
MapValueReturn ==
    /\ ctl = "ret" /\ stack # <<>> /\ Top.kind = "map" /\ Top.pc = "value"
    /\ index' = Top.saved
    /\ IF result = "ok"
       THEN /\ stack' = SetTop([Top EXCEPT !.pc = "visit", !.want = "key",
                                           !.index = @ + 1])
            /\ ctl' = "visit"
       ELSE /\ stack' = SetTop([Top EXCEPT !.pc = "visit", !.index = @ + 1,
                                           !.val = result])
            /\ ctl' = "leave"
    /\ UNCHANGED <<nodes, order, reader, result, last, errs, late, outcome, dxtvars, pass, length>>

(***************************************************************************)
(* SeqAccess (the access object of an Array-child record).                 *)
(***************************************************************************)
\* next_element_seed up to seed.deserialize(&mut *self.de)
SeqNextElement ==
    /\ ctl = "visit" /\ Top.kind = "seq" /\ ~Top.ended
    /\ IF Top.index >= Top.size
       THEN /\ stack' = SetTop([Top EXCEPT !.ended = TRUE, !.seen = Append(@, index)])
            /\ index' = Top.end_offset
            /\ UNCHANGED ctl
       ELSE /\ Top.index < MaxReq
            /\ stack' = SetTop([Top EXCEPT !.saved = index, !.pc = "elem",
                                           !.seen = Append(@, index),
                                           !.hist = Append(@, Ev("e", Top.offset))])
            /\ index' = Top.offset
            /\ ctl' = "call"
    /\ UNCHANGED <<nodes, order, reader, result, last, errs, late, outcome, dxtvars, pass, length>>

\* the de.index next_element_seed leaves once the element is decoded
SeqRestoreKeepsNow(saved, now) == now

SeqRestore(saved, now) == saved

\* next_element_seed after the element's deserialize_any has returned
SeqElementReturn ==
    /\ ctl = "ret" /\ stack # <<>> /\ Top.kind = "seq" /\ Top.pc = "elem"
    /\ index' = SeqRestore(Top.saved, index)
    /\ IF result = "ok"
       THEN /\ stack' = SetTop([Top EXCEPT !.pc = "visit", !.index = @ + 1])
            /\ ctl' = "visit"
       ELSE /\ stack' = SetTop([Top EXCEPT !.pc = "visit", !.index = @ + 1,
                                           !.val = result])
            /\ ctl' = "leave"
    /\ UNCHANGED <<nodes, order, reader, result, last, errs, late, outcome, dxtvars, pass, length>>

(***************************************************************************)
(* StructAccess (the access object of a record without an Array child).    *)
(***************************************************************************)
check_finish(ns, idx, end) == idx >= Len(ns) \/ idx >= end

\* next_key_seed: None once finish is set, NodeEof past the last node, else
\* the node's name through a Field deserializer
StructNextKey ==
    /\ ctl = "visit" /\ Top.kind = "struct" /\ Top.want = "key" /\ ~Top.ended
    /\ IF Top.finish
       THEN /\ stack' = SetTop([Top EXCEPT !.ended = TRUE, !.seen = Append(@, index)])
            /\ UNCHANGED <<ctl, errs>>
       ELSE IF index >= Len(nodes)
       THEN /\ stack' = SetTop([Top EXCEPT !.val = "NodeEof", !.seen = Append(@, index)])
            /\ errs' = Append(errs, "NodeEof")
            /\ ctl' = "leave"
       ELSE /\ stack' = SetTop([Top EXCEPT !.want = "value",
                                           !.seen = Append(@, index),
                                           !.hist = Append(@, Ev("k", index))])
            /\ UNCHANGED <<ctl, errs>>
    /\ UNCHANGED <<nodes, order, reader, index, result, last, late, outcome, dxtvars, pass, length>>

\* next_value_seed up to seed.deserialize(&mut *self.de)
StructNextValue ==
    /\ ctl = "visit" /\ Top.kind = "struct" /\ Top.want = "value"
    /\ stack' = SetTop([Top EXCEPT !.pc = "value", !.hist = Append(@, Ev("v", index))])
    /\ ctl' = "call"
    /\ UNCHANGED <<nodes, order, reader, index, result, last, errs, late, outcome, dxtvars, pass, length>>

\* next_value_seed after the value's deserialize_any has returned
StructValueReturn ==
    /\ ctl = "ret" /\ stack # <<>> /\ Top.kind = "struct" /\ Top.pc = "value"
    /\ IF result # "ok"
       THEN /\ stack' = SetTop([Top EXCEPT !.pc = "visit", !.val = result])
            /\ index' = index
            /\ ctl' = "leave"
       ELSE /\ ctl' = "visit"
            /\ IF check_finish(nodes, index, Top.end)
               THEN /\ stack' = SetTop([Top EXCEPT !.pc = "visit", !.want = "key",
                                                   !.finish = TRUE])
                    /\ index' = index
               ELSE /\ stack' = SetTop([Top EXCEPT !.pc = "visit", !.want = "key"])
                    /\ index' = index + 1
    /\ UNCHANGED <<nodes, order, reader, result, last, errs, late, outcome, dxtvars, pass, length>>

(***************************************************************************)
(* ObjectInfo::read_type_tree: T::deserialize(&mut de).unwrap()            *)
(***************************************************************************)
\* how read_type_tree ends on the result of T::deserialize
Unwrap(res) == IF res = "ok" THEN "Ok" ELSE "panic"

ReadTypeTreeReturn ==
    /\ ctl = "ret" /\ stack = <<>>
    /\ outcome' = Unwrap(result)
    /\ ctl' = "done"
    /\ UNCHANGED <<nodes, order, reader, index, stack, result, last, errs, late, dxtvars, pass, length>>

Next ==
    \/ DeserializeAny
    \/ VisitReturn
    \/ AnyReturn
    \/ MapNextKey
    \/ MapKeyReturn
    \/ MapNextValue
    \/ MapValueReturn
    \/ SeqNextElement
    \/ SeqElementReturn
    \/ StructNextKey
    \/ StructNextValue
    \/ StructValueReturn
    \/ ReadTypeTreeReturn

Spec == Init /\ [][Next]_vars

(***************************************************************************)
(* A second decode of the same object, as the test makes after its typed   *)
(* read: a reader from get_reader and a Deserializer from ::new.           *)
(***************************************************************************)
get_reader_where_it_was(R) == R

\* Reader::new over the object's slice: the same bytes, from offset 0
get_reader(R) == [R EXCEPT !.pos = 0]

DeserializerNew == [index |-> 0]

SecondPass ==
    /\ ctl = "done" /\ outcome = "Ok" /\ pass.n = 1
    /\ reader' = get_reader(reader)
    /\ index' = DeserializerNew.index
    /\ stack' = <<>>
    /\ ctl' = "call"
    /\ result' = "none"
    /\ last' = NoLast
    /\ errs' = <<>>
    /\ late' = 0
    /\ outcome' = "running"
    /\ pass' = [n |-> 2, last1 |-> last, data1 |-> reader.data]
    /\ UNCHANGED <<nodes, order, dxtvars, length>>

NextTwice == Next \/ SecondPass

\* the objects decoded twice: one tree of each kind of node, with the
\* alignment bit on no node or on the first
TwiceShapes ==
    {<<Node(0, "UInt8")>>, StringShape(0), TypelessShape(0),
     <<Node(0, "vector"), Node(1, "Array"), Node(2, "int"), Node(2, "UInt8")>>,
     <<Node(0, "map"), Node(1, "Array"), Node(2, "int"), Node(2, "pair"),
       Node(3, "UInt8"), Node(3, "UInt8")>>,
     <<Node(0, "Base"), Node(1, "UInt8"), Node(1, "UInt8")>>,
     <<Node(0, "Base"), Node(1, "vector"), Node(2, "Array"), Node(3, "int"),
       Node(3, "UInt8")>>}

InitTwice ==
    /\ Init
    /\ nodes \in UNION {{Decorate(s, {}), Decorate(s, {1})} : s \in TwiceShapes}

SpecTwice == InitTwice /\ [][NextTwice]_vars

(***************************************************************************)
(* Properties of the walk.                                                 *)
(***************************************************************************)
Frames == {stack[k] : k \in 1..Len(stack)}

\* the events of a history with one tag, as the node indices they name
RECURSIVE Tagged(_, _)
Tagged(hist, tag) ==
    IF hist = <<>> THEN <<>>
    ELSE (IF Head(hist).tag = tag THEN <<Head(hist).at>> ELSE <<>>)
         \o Tagged(Tail(hist), tag)

\* the members of a set of numbers in increasing order
Sorted(S) ==
    [k \in 1..Cardinality(S) |-> CHOOSE j \in S : Cardinality({x \in S : x < j}) = k - 1]

\* the direct children of node i: the nodes of its subtree one level below it
DirectChildren(ns, i) ==
    Sorted({j \in (i + 1)..(i + get_level_length(ns, i) - 1) :
              NodeAt(ns, j).level = NodeAt(ns, i).level + 1})

\* a user-defined record of the tree whose whole map the receiver has consumed
\* (next_key_seed has answered None)
RecordConsumed(f) ==
    /\ f.kind = "struct" /\ f.ended
    /\ NodeAt(nodes, f.node).type = "Base"

\* C1: a receiver that consumes the whole map of the record at node i sees
\* exactly one key per direct child of i, in child order (names are distinct,
\* so the key is the child's name exactly when it was taken at the child's
\* index), and each value is decoded by a dispatch at that child's index.
C1_OneKeyPerChild ==
    \A f \in Frames :
       RecordConsumed(f) =>
          /\ Tagged(f.hist, "k") = DirectChildren(nodes, f.node)
          /\ Tagged(f.hist, "v") = DirectChildren(nodes, f.node)

\* C2: an Array-child record at node i with count header N >= 0 dispatches
\* every element at i + 3, the node index is the same at every request, and a
\* receiver that is told there is no element left has seen exactly N.
C2_SeqArity ==
    \A f \in Frames :
       (f.kind = "seq" /\ f.count >= 0) =>
          /\ \A k \in 1..Len(f.hist) : f.hist[k] = Ev("e", f.node + 3)
          /\ \A k \in 1..Len(f.seen) : f.seen[k] = f.seen[1]
          /\ Len(f.hist) <= f.count
          /\ f.ended => Len(f.hist) = f.count

C2_Witness ==
    /\ stack # <<>> /\ Top.kind = "seq" /\ Top.ended
    /\ Top.count = 2 /\ Len(Top.hist) = 2

\* C3: a map at node i with count header N >= 0 dispatches key, value, key,
\* value, ..., the keys at i + 4 and the values at i + 4 + subtree_len(i + 4);
\* a receiver that is told there is no key left has caused N of each, and the
\* node index is then i + subtree_len(i) - 1.
C3_MapArity ==
    \A f \in Frames :
       (f.kind = "map" /\ f.count >= 0) =>
          /\ \A k \in 1..Len(f.hist) :
                f.hist[k] = IF k % 2 = 1
                            THEN Ev("k", f.node + 4)
                            ELSE Ev("v", f.node + 4 + get_level_length(nodes, f.node + 4))
          /\ Len(f.hist) <= 2 * f.count
          /\ f.ended => /\ Len(f.hist) = 2 * f.count
                        /\ index = f.node + get_level_length(nodes, f.node) - 1

C3_Witness ==
    /\ stack # <<>> /\ Top.kind = "map" /\ Top.ended
    /\ Top.count >= 1 /\ Len(Top.hist) = 2 * Top.count
    /\ get_level_length(nodes, Top.node + 4) > 1

\* C4: once a record entered at node i has been decoded in full, the node
\* index is i + subtree_len(i) - 1.
C4_SubtreeClosure ==
    \A f \in Frames :
       RecordConsumed(f) => index = f.node + get_level_length(nodes, f.node) - 1

\* the nodes whose dispatch the claim says ends aligned: the node's own bit,
\* or the bit of the Array child of a map or of an Array-child record
ClaimsAligned(ns, i) ==
    \/ HasAlignBit(NodeAt(ns, i).meta_flag)
    \/ /\ i + 1 < Len(ns)
       /\ NodeAt(ns, i + 1).type = "Array"
       /\ NodeAt(ns, i).type \notin {"string", "TypelessData"}
       /\ HasAlignBit(NodeAt(ns, i + 1).meta_flag)

RoundUp4(p) == ((p + 3) \div 4) * 4

\* C5: a dispatch at such a node that returns a value leaves the reader at a
\* multiple of 4, by one align(4) that ran on the offset the node's whole
\* payload had left.
C5_NodeAlignment ==
    (ctl = "ret" /\ result = "ok" /\ last.node < Len(nodes)
       /\ ClaimsAligned(nodes, last.node)) =>
          /\ reader.pos % 4 = 0
          /\ last.aligns = 1
          /\ reader.pos = RoundUp4(last.before)

C5_Witness ==
    /\ ctl = "ret" /\ result = "ok" /\ last.node < Len(nodes)
    /\ ~HasAlignBit(NodeAt(nodes, last.node).meta_flag)
    /\ ClaimsAligned(nodes, last.node)
    /\ last.frame.kind = "seq" /\ Len(last.frame.hist) = 1
    /\ last.before % 4 # 0

\* C6: when the decode that read_type_tree drives fails, read_type_tree
\* returns the error as its Err result.
C6_ErrorsReturned ==
    (ctl = "done" /\ result # "ok") => outcome = "Err"

\* C7: a decode in which NodeEof was raised (a dispatch or a key fetch at an
\* index past the last node) fails with NodeEof, and a decode over the empty
\* node sequence fails with NodeEof with the reader where it was.
C7_NodeEofFails ==
    /\ (ctl = "done" /\ errs # <<>> /\ errs[1] = "NodeEof") => result = "NodeEof"
    /\ (ctl = "done" /\ nodes = <<>>) => (result = "NodeEof" /\ reader.pos = 0)

(***************************************************************************)
(* One-node trees of every scalar type over slices given in full, in both  *)
(* byte orders.                                                            *)
(***************************************************************************)
ScalarTypeNames ==
    {"SInt8", "UInt8", "char", "short", "SInt16", "UInt16", "unsigned short", "int",
     "SInt32", "UInt32", "unsigned int", "Type*", "long long", "SInt64", "UInt64",
     "unsigned long long", "FileSize", "float", "double", "bool"}

ScalarSlices ==
    UNION {[1..n -> {0, 1, 200}] : n \in 0..3}
    \cup UNION {[1..n -> {1, 200}] : n \in {4, 5, 8, 9}}

InitScalar ==
    /\ nodes \in {<<[level |-> 0, type |-> t, name |-> Names[1], meta_flag |-> f]>> :
                    t \in ScalarTypeNames, f \in {0, AlignBit}}
    /\ order \in Orders
    /\ reader \in {[pos |-> 0, data |-> d, hi |-> Len(d)] : d \in ScalarSlices}
    /\ index = 0
    /\ stack = <<>>
    /\ ctl = "call"
    /\ result = "none"
    /\ last = NoLast
    /\ errs = <<>>
    /\ late = 0
    /\ outcome = "running"
    /\ pass = NoPass
    /\ length = NoLength
    /\ fmt = "none" /\ block = <<>> /\ pixels = <<>> /\ image = NoImage

NextScalar == DeserializeAny \/ ReadTypeTreeReturn

SpecScalar == InitScalar /\ [][NextScalar]_vars

\* the table of the claim: type name to visit kind, kind to width
ClaimKind(t) ==
    CASE t \in {"SInt8"} -> "i8"
      [] t \in {"UInt8", "char"} -> "u8"
      [] t \in {"short", "SInt16"} -> "i16"
      [] t \in {"UInt16", "unsigned short"} -> "u16"
      [] t \in {"int", "SInt32"} -> "i32"
      [] t \in {"UInt32", "unsigned int", "Type*"} -> "u32"
      [] t \in {"long long", "SInt64"} -> "i64"
      [] t \in {"UInt64", "unsigned long long", "FileSize"} -> "u64"
      [] t \in {"float"} -> "f32"
      [] t \in {"double"} -> "f64"
      [] t \in {"bool"} -> "bool"

ClaimWidth(kind) ==
    CASE kind \in {"i8", "u8", "bool"} -> 1
      [] kind \in {"i16", "u16"} -> 2
      [] kind \in {"i32", "u32", "f32"} -> 4
      [] kind \in {"i64", "u64", "f64"} -> 8

\* the bytes of a value (its digits base 256, most significant first) in a
\* byte order
ToBytes(value, ord) ==
    [k \in 1..Len(value) |->
        IF ord = "LittleEndian" THEN value[Len(value) + 1 - k] ELSE value[k]]

\* C8: over a one-node tree of a scalar type and a slice that holds the
\* value's bytes, the decode visits once, with the kind the table gives the
\* type name; it has then read that kind's width; and the value visited is
\* the one whose bytes in the reader's byte order the slice starts with.
C8_ScalarTable ==
    LET t == nodes[1].type
        w == ClaimWidth(ClaimKind(t))
    IN  (ctl \in {"ret", "done"} /\ Len(nodes) = 1 /\ t \in ScalarTypeNames
           /\ Len(reader.data) >= w) =>
             /\ last.visit.kind = ClaimKind(t)
             /\ last.before = w
             /\ (ClaimKind(t) = "bool" => reader.data[1] \in {0, 1} \/ last.visit.value = <<1>>)
             /\ (ClaimKind(t) # "bool" \/ reader.data[1] \in {0, 1}) =>
                   ToBytes(last.visit.value, order) = SubSeq(reader.data, 1, w)

C8_Witness ==
    /\ ctl = "ret" /\ result = "ok" /\ Len(nodes) = 1
    /\ nodes[1].type = "unsigned long long" /\ order = "LittleEndian"
    /\ last.visit.kind = "u64"
    /\ last.visit.value = <<200, 1, 1, 1, 1, 1, 1, 1>>
    /\ reader.pos = 8

(***************************************************************************)
(* Block texture decoder: one DXT1 block (8 bytes) or one DXT5 block (16   *)
(* bytes) to its 16 RGBA pixels.  Integers keep their Rust widths.         *)
(***************************************************************************)
U8(x) == x % 256

U16(x) == x % 65536

RECURSIVE BitOr(_, _)
BitOr(a, b) ==
    IF a = 0 THEN b
    ELSE IF b = 0 THEN a
    ELSE Max(a % 2, b % 2) + 2 * BitOr(a \div 2, b \div 2)

\* read_u16::<LittleEndian> at byte offset at of the block
ReadU16LE(data, at) == data[at + 1] + 256 * data[at + 2]

\* bit j of the little-endian integer held in bytes
BitOf(bytes, j) == (bytes[(j \div 8) + 1] \div 2^(j % 8)) % 2

\* (v >> shift) & (2^n - 1) for the little-endian integer v held in bytes
ShiftMask(bytes, shift, n) ==
    IF n = 2
    THEN BitOf(bytes, shift) + 2 * BitOf(bytes, shift + 1)
    ELSE BitOf(bytes, shift) + 2 * BitOf(bytes, shift + 1) + 4 * BitOf(bytes, shift + 2)

rgb565_to_rgb888(c) ==
    LET r == U8((c \div 2048) % 32)
        g == U8((c \div 32) % 64)
        b == U8(c % 32)
    IN  <<BitOr(U8(r * 8), r \div 4), BitOr(U8(g * 4), g \div 16), BitOr(U8(b * 8), b \div 4)>>

\* colors[2] and colors[3] of the opaque mode, one component
Mix2(x0, x1) == U8(U16(U16(2 * x0) + x1) \div 3)

Mix3AsMix2(x0, x1) == Mix2(x0, x1)

Mix3(x0, x1) == U8(U16(x0 + U16(2 * x1)) \div 3)

MixHalf(x0, x1) == U8(U16(x0 + x1) \div 2)

Dxt1OpaqueOrEqual(c0, c1) == c0 >= c1

Dxt1Opaque(c0, c1) == c0 > c1

Dxt1Colors(c0, c1) ==
    LET p0 == rgb565_to_rgb888(c0)
        p1 == rgb565_to_rgb888(c1)
    IN  [k \in 0..3 |->
            CASE k = 0 -> <<p0[1], p0[2], p0[3], 255>>
              [] k = 1 -> <<p1[1], p1[2], p1[3], 255>>
              [] k = 2 -> IF Dxt1Opaque(c0, c1)
                          THEN <<Mix2(p0[1], p1[1]), Mix2(p0[2], p1[2]), Mix2(p0[3], p1[3]), 255>>
                          ELSE <<MixHalf(p0[1], p1[1]), MixHalf(p0[2], p1[2]),
                                 MixHalf(p0[3], p1[3]), 255>>
              [] k = 3 -> IF Dxt1Opaque(c0, c1)
                          THEN <<Mix3(p0[1], p1[1]), Mix3(p0[2], p1[2]), Mix3(p0[3], p1[3]), 255>>
                          ELSE <<0, 0, 0, 0>>]

Dxt1_decode_block(data) ==
    LET c0     == ReadU16LE(data, 0)
        c1     == ReadU16LE(data, 2)
        idx    == SubSeq(data, 5, 8)
        colors == Dxt1Colors(c0, c1)
    IN  [i \in 0..15 |-> colors[ShiftMask(idx, 2 * i, 2)]]

Dxt5AlphaWideSkewed(i, a0, a1) == U8(U16(U16((8 - i) * a0) + U16(i * a1)) \div 7)

Dxt5AlphaWide(i, a0, a1) == U8(U16(U16((8 - i) * a0) + U16((i - 1) * a1)) \div 7)

Dxt5AlphaNarrow(i, a0, a1) == U8(U16(U16((6 - i) * a0) + U16((i - 1) * a1)) \div 5)

Dxt5Alphas(a0, a1) ==
    [k \in 0..7 |->
        CASE k = 0 -> a0
          [] k = 1 -> a1
          [] OTHER -> IF a0 > a1 THEN Dxt5AlphaWide(k, a0, a1)
                      ELSE IF k < 6 THEN Dxt5AlphaNarrow(k, a0, a1)
                      ELSE IF k = 6 THEN 0 ELSE 255]

Dxt5Colors(c0, c1) ==
    LET p0 == rgb565_to_rgb888(c0)
        p1 == rgb565_to_rgb888(c1)
    IN  [k \in 0..3 |->
            CASE k = 0 -> p0
              [] k = 1 -> p1
              [] k = 2 -> <<Mix2(p0[1], p1[1]), Mix2(p0[2], p1[2]), Mix2(p0[3], p1[3])>>
              [] k = 3 -> <<Mix3(p0[1], p1[1]), Mix3(p0[2], p1[2]), Mix3(p0[3], p1[3])>>]

Dxt5_decode_block(data) ==
    LET alphas == Dxt5Alphas(data[1], data[2])
        aidx   == SubSeq(data, 3, 8)
        c0     == ReadU16LE(data, 8)
        c1     == ReadU16LE(data, 10)
        cidx   == SubSeq(data, 13, 16)
        colors == Dxt5Colors(c0, c1)
    IN  [i \in 0..15 |->
            LET rgb == colors[ShiftMask(cidx, 2 * i, 2)]
                a   == alphas[ShiftMask(aidx, 3 * i, 3)]
            IN  <<rgb[1], rgb[2], rgb[3], a>>]

\* the blocks decoded: endpoints over bytes that reach every corner of the
\* 5/6/5 fields, every alpha pair, and index words that use every index
EndpointBytes == {0, 1, 16, 31, 32, 132, 224, 231, 248, 255}

ColorIndexWords == {<<0, 0, 0, 0>>, <<255, 255, 255, 255>>, <<228, 27, 170, 85>>}

AlphaIndexWords ==
    {<<255, 255, 255, 255, 255, 255>>, <<182, 109, 219, 182, 109, 219>>,
     <<136, 198, 250, 136, 198, 250>>}

Dxt1Blocks ==
    {<<l0, h0, l1, h1>> \o w : l0 \in EndpointBytes, h0 \in EndpointBytes,
                               l1 \in EndpointBytes, h1 \in EndpointBytes,
                               w \in ColorIndexWords}

Dxt5Blocks ==
    {<<a0, a1>> \o w \o <<255, 255, 0, 0, 228, 27, 170, 85>> :
        a0 \in 0..255, a1 \in 0..255, w \in {<<136, 198, 250, 136, 198, 250>>}}
    \cup {<<a0, a1>> \o w \o <<16, 1, 31, 132, 228, 27, 170, 85>> :
        a0 \in {0, 255}, a1 \in {0, 255}, w \in AlphaIndexWords}

InitDXT ==
    /\ nodes = <<>>
    /\ order = "LittleEndian"
    /\ reader = [pos |-> 0, data |-> <<>>, hi |-> 0]
    /\ index = 0
    /\ stack = <<>>
    /\ ctl = "idle"
    /\ result = "none"
    /\ last = NoLast
    /\ errs = <<>>
    /\ late = 0
    /\ outcome = "running"
    /\ pass = NoPass
    /\ length = NoLength
    /\ \/ fmt = "DXT1" /\ block \in Dxt1Blocks
       \/ fmt = "DXT5" /\ block \in Dxt5Blocks
    /\ pixels = <<>>
    /\ image = NoImage

Dxt1DecodeBlock ==
    /\ fmt = "DXT1"
    /\ DOMAIN pixels = {}
    /\ pixels' = Dxt1_decode_block(block)
    /\ UNCHANGED <<devars, fmt, block, image>>

Dxt5DecodeBlock ==
    /\ fmt = "DXT5"
    /\ DOMAIN pixels = {}
    /\ pixels' = Dxt5_decode_block(block)
    /\ UNCHANGED <<devars, fmt, block, image>>

NextDXT == Dxt1DecodeBlock \/ Dxt5DecodeBlock

SpecDXT == InitDXT /\ [][NextDXT]_vars

\* an RGB565 endpoint expanded to 8 bits a channel by bit replication
Expand565(c) ==
    LET r5 == c \div 2048
        g6 == (c \div 32) % 64
        b5 == c % 32
    IN  <<r5 * 8 + r5 \div 4, g6 * 4 + g6 \div 16, b5 * 8 + b5 \div 4>>

\* the colour table of the claim
ClaimColor(k, c0, c1) ==
    LET e0 == Expand565(c0)
        e1 == Expand565(c1)
    IN  CASE k = 0 -> e0 \o <<255>>
          [] k = 1 -> e1 \o <<255>>
          [] k = 2 -> IF c0 > c1
                      THEN [j \in 1..3 |-> (2 * e0[j] + e1[j]) \div 3] \o <<255>>
                      ELSE [j \in 1..3 |-> (e0[j] + e1[j]) \div 2] \o <<255>>
          [] k = 3 -> IF c0 > c1
                      THEN [j \in 1..3 |-> (e0[j] + 2 * e1[j]) \div 3] \o <<255>>
                      ELSE <<0, 0, 0, 0>>

\* C9: a decoded DXT1 block has, at pixel i, the entry of the colour table
\* that bits 2i and 2i+1 of the 32-bit little-endian index word select,
\* where the table is: the two endpoints expanded from RGB565 by bit
\* replication with alpha 255; then, if c0 > c1 as 16-bit values, the
\* thirds (2*c0+c1)/3 and (c0+2*c1)/3 a component, truncated, alpha 255;
\* otherwise the half (c0+c1)/2 with alpha 255 and the transparent black.
C9_Dxt1ColorTable ==
    (fmt = "DXT1" /\ DOMAIN pixels # {}) =>
        LET c0 == block[1] + 256 * block[2]
            c1 == block[3] + 256 * block[4]
        IN  /\ DOMAIN pixels = 0..15
            /\ \A i \in 0..15 :
                 pixels[i] = ClaimColor((block[5 + (i \div 4)] \div 4^(i % 4)) % 4, c0, c1)

C9_Witness ==
    /\ fmt = "DXT1" /\ DOMAIN pixels # {}
    /\ block = <<31, 132, 16, 1, 228, 27, 170, 85>>
    /\ pixels[2] = <<88, 97, 214, 255>>
    /\ pixels[3] = <<44, 64, 173, 255>>

\* C10: a decoded DXT5 block has, at pixel i, the alpha that bits 3i..3i+2
\* of the 48-bit little-endian integer of bytes 2..7 select from the alpha
\* table, where the table is: a0, a1; then, if a0 > a1, the six sevenths
\* ((8-k)*a0+(k-1)*a1)/7 for k in 2..7; otherwise the four fifths
\* ((6-k)*a0+(k-1)*a1)/5 for k in 2..5, then 0 and 255.  Every entry is the
\* exact quotient, within 0..255.  With a0 = 0 and a1 = 255, a block of all
\* sevens is fully opaque and a block of all sixes fully transparent.
C10_Dxt5AlphaTable ==
    (fmt = "DXT5" /\ DOMAIN pixels # {}) =>
        LET a0 == block[1]
            a1 == block[2]
            lo == block[3] + 256 * block[4] + 65536 * block[5]
            hi == block[6] + 256 * block[7] + 65536 * block[8]
            table == Dxt5Alphas(a0, a1)
            claim == [k \in 0..7 |->
                        CASE k = 0 -> a0
                          [] k = 1 -> a1
                          [] OTHER -> IF a0 > a1 THEN ((8 - k) * a0 + (k - 1) * a1) \div 7
                                      ELSE IF k <= 5 THEN ((6 - k) * a0 + (k - 1) * a1) \div 5
                                      ELSE IF k = 6 THEN 0 ELSE 255]
            ai(i) == IF i < 8 THEN (lo \div 8^i) % 8 ELSE (hi \div 8^(i - 8)) % 8
        IN  /\ \A k \in 0..7 : claim[k] \in 0..255 /\ table[k] = claim[k]
            /\ \A i \in 0..15 : pixels[i][4] = claim[ai(i)]
            /\ (a0 = 0 /\ a1 = 255 /\ \A k \in 3..8 : block[k] = 255) =>
                  \A i \in 0..15 : pixels[i][4] = 255
            /\ (a0 = 0 /\ a1 = 255 /\ SubSeq(block, 3, 8) = <<182, 109, 219, 182, 109, 219>>) =>
                  \A i \in 0..15 : pixels[i][4] = 0

C10_Witness ==
    /\ fmt = "DXT5" /\ DOMAIN pixels # {}
    /\ block[1] = 200 /\ block[2] = 13
    /\ SubSeq(block, 3, 8) = <<136, 198, 250, 136, 198, 250>>
    /\ pixels[2][4] = 173 /\ pixels[7][4] = 39 /\ pixels[10][4] = 173

(***************************************************************************)
(* DXT1::decode and DXT5::decode: a whole image, block by block.           *)
(* width and height are u32: the arithmetic on them is done on four        *)
(* base-256 digits, least significant first, so that a product that does   *)
(* not fit wraps (overflow checks off) or panics (overflow checks on).     *)
(***************************************************************************)
MaxBlocks == 3

Digits32(n) == [k \in 1..4 |-> (n \div 256^(k - 1)) % 256]

RECURSIVE SumTo(_, _)
SumTo(f, n) == IF n = 0 THEN 0 ELSE f[n] + SumTo(f, n - 1)

RECURSIVE Carried(_, _, _)
Carried(cols, k, c) ==
    IF k > Len(cols) THEN <<>>
    ELSE <<(cols[k] + c) % 256>> \o Carried(cols, k + 1, (cols[k] + c) \div 256)

\* the product and the sum of two natural numbers given by their digits
MulExact(a, b) ==
    Carried([k \in 1..(Len(a) + Len(b)) |->
                SumTo([i \in 1..Len(a) |->
                         IF k + 1 - i \in 1..Len(b) THEN a[i] * b[k + 1 - i] ELSE 0],
                      Len(a))],
            1, 0)

AddExact(a, b) ==
    Carried([k \in 1..(Len(a) + 1) |-> IF k <= Len(a) THEN a[k] + b[k] ELSE 0], 1, 0)

\* a * b and a + b in u32: the low four digits, and whether more were needed
MulU32(a, b) ==
    LET p == MulExact(a, b)
    IN  [v |-> SubSeq(p, 1, 4), over |-> \E k \in 5..Len(p) : p[k] # 0]

AddU32(a, b) ==
    LET p == AddExact(a, b)
    IN  [v |-> SubSeq(p, 1, 4), over |-> p[5] # 0]

\* the number four digits stand for, when it is below 2^31
Below31(d) == d[4] < 128

Value32(d) == d[1] + 256 * d[2] + 65536 * d[3] + 16777216 * d[4]

BlockSize(f) == IF f = "DXT1" THEN 8 ELSE 16

DecodeBlockOf(f, chunk) ==
    IF f = "DXT1" THEN Dxt1_decode_block(chunk) ELSE Dxt5_decode_block(chunk)

\* chunk number i of data.chunks(block_size): the last one may be short
Chunk(data, size, i) == SubSeq(data, i * size + 1, Min((i + 1) * size, Len(data)))

BlocksX(width) == (width + 3) \div 4

NotFlipped(height, y) == y

FlippedY(height, y) == height - 1 - y

\* global_idx of the pixel at (x, y): ((flipped_y * width + x) * 4) in u32
GlobalIdx(width, height, x, y) ==
    LET m == MulU32(Digits32(FlippedY(height, y)), Digits32(width))
        a == AddU32(m.v, Digits32(x))
        g == MulU32(a.v, Digits32(4))
    IN  [v |-> g.v, over |-> m.over \/ a.over \/ g.over]

\* buffer[global_idx..global_idx + 4] is inside a buffer of len bytes
InBuffer(at, len) == Below31(at) /\ Value32(at) + 4 <= len

\* the writes of one block into a buffer of len bytes, in the order of the
\* two loops (entry row * 4 + col + 1), for the pixels that pass the test
\* on x and y: whether the offset wrapped, whether it is in the buffer, and
\* the offset when it is
BlockWrites(width, height, i, len) ==
    LET block_x == (i % BlocksX(width)) * 4
        block_y == (i \div BlocksX(width)) * 4
    IN  [n \in 1..16 |->
            LET x == block_x + ((n - 1) % 4)
                y == block_y + ((n - 1) \div 4)
                g == GlobalIdx(width, height, x, y)
            IN  IF x >= width \/ y >= height
                THEN [skip |-> TRUE, over |-> FALSE, inside |-> TRUE, at |-> 0]
                ELSE [skip |-> FALSE, over |-> g.over, inside |-> InBuffer(g.v, len),
                      at |-> IF InBuffer(g.v, len) THEN Value32(g.v) ELSE 0]] \o <<>>

\* the buffer after the writes ws of the pixels px (a later write wins)
Written(buffer, ws, px) ==
    [k \in 1..Len(buffer) |->
        LET hits == {n \in 1..16 : ~ws[n].skip /\ ws[n].at < k /\ k <= ws[n].at + 4}
        IN  IF hits = {} THEN buffer[k]
            ELSE LET n == CHOOSE m \in hits : \A o \in hits : o <= m
                 IN  px[n][k - ws[n].at]]

\* the size of the image in bytes, as RgbaImage::from_raw computes it
ExactSize(width, height) ==
    MulExact(MulExact(Digits32(width), Digits32(height)), Digits32(4))

\* RgbaImage::from_raw gives an image when the buffer is large enough
FromRaw(width, height, buffer) ==
    LET need == ExactSize(width, height)
    IN  /\ \A k \in 5..Len(need) : need[k] = 0
        /\ Below31(need)
        /\ Value32(need) <= Len(buffer)

\* the images decoded: widths and heights around the block size, and pairs
\* whose product does not fit in 32 bits
SmallWidths == {0, 1, 4, 5, 8}

SmallHeights == {0, 1, 3, 4, 8}

ImageDims ==
    (SmallWidths \X SmallHeights)
    \cup {<<65536, 65536>>, <<1073741825, 1>>, <<1, 1073741824>>}

ImageBlocks(f) ==
    IF f = "DXT1"
    THEN <<(<<31, 132, 16, 1, 228, 27, 170, 85>>), (<<0, 0, 255, 255, 228, 27, 170, 85>>)>>
    ELSE <<(<<200, 13, 136, 198, 250, 136, 198, 250, 31, 132, 16, 1, 228, 27, 170, 85>>),
           (<<0, 255, 136, 198, 250, 136, 198, 250, 255, 255, 0, 0, 228, 27, 170, 85>>)>>

RECURSIVE Concat(_)
Concat(ss) == IF ss = <<>> THEN <<>> ELSE Head(ss) \o Concat(Tail(ss))

\* up to MaxBlocks whole blocks, the two blocks in turn, then nothing or the
\* start of one more
ImageData(f) ==
    {Concat([k \in 1..m |-> ImageBlocks(f)[2 - (k % 2)]]) \o SubSeq(ImageBlocks(f)[1], 1, n) :
        m \in 0..MaxBlocks, n \in {0, 3}}

InitImage ==
    /\ nodes = <<>>
    /\ order = "LittleEndian"
    /\ reader = [pos |-> 0, data |-> <<>>, hi |-> 0]
    /\ index = 0
    /\ stack = <<>>
    /\ ctl = "idle"
    /\ result = "none"
    /\ last = NoLast
    /\ errs = <<>>
    /\ late = 0
    /\ outcome = "running"
    /\ pass = NoPass
    /\ length = NoLength
    /\ fmt \in {"DXT1", "DXT5"}
    /\ block = <<>>
    /\ pixels = <<>>
    /\ \E wh \in ImageDims, d \in ImageData(fmt), c \in BOOLEAN :
         image = [pc |-> "alloc", checks |-> c, width |-> wh[1], height |-> wh[2],
                  data |-> d, i |-> 0, alloc |-> <<>>, buffer |-> <<>>,
                  wrapped |-> FALSE, status |-> "running"]

\* vec![0u8; (width * height * 4) as usize]
ImageAlloc ==
    /\ image.pc = "alloc"
    /\ LET m1 == MulU32(Digits32(image.width), Digits32(image.height))
           m2 == MulU32(m1.v, Digits32(4))
       IN  IF (m1.over \/ m2.over) /\ image.checks
           THEN image' = [image EXCEPT !.pc = "done", !.status = "panic"]
           ELSE image' = [image EXCEPT !.pc = "loop", !.alloc = m2.v,
                                       !.buffer = [k \in 1..Value32(m2.v) |-> 0],
                                       !.wrapped = m1.over \/ m2.over]
    /\ UNCHANGED <<devars, fmt, block, pixels>>

\* one turn of the loop over the chunks, for a chunk of the full size
ImageChunk ==
    /\ image.pc = "loop"
    /\ image.i * BlockSize(fmt) < Len(image.data)
    /\ Len(Chunk(image.data, BlockSize(fmt), image.i)) = BlockSize(fmt)
    /\ \E chunk \in {Chunk(image.data, BlockSize(fmt), image.i)} :
       \E px \in {DecodeBlockOf(fmt, chunk)} :
          /\ block' = chunk
          /\ pixels' = px
          /\ IF BlocksX(image.width) = 0
             THEN image' = [image EXCEPT !.pc = "done", !.status = "panic"]
             ELSE \E ws \in {BlockWrites(image.width, image.height, image.i,
                                         Len(image.buffer))} :
                  \E seq \in {[n \in 1..16 |-> px[n - 1]]} :
                     IF \/ image.checks /\ \E n \in 1..16 : ~ws[n].skip /\ ws[n].over
                        \/ \E n \in 1..16 : ~ws[n].skip /\ ~ws[n].inside
                     THEN image' = [image EXCEPT !.pc = "done", !.status = "panic"]
                     ELSE image' =
                            [image EXCEPT
                               !.i = @ + 1,
                               !.buffer = Written(image.buffer, ws, seq),
                               !.wrapped = @ \/ \E n \in 1..16 : ~ws[n].skip /\ ws[n].over]
    /\ UNCHANGED <<devars, fmt>>

\* the loop ends (no chunk is left, or the chunk is short: break), then
\* RgbaImage::from_raw: ok_or(ImageDecode) in DXT1, unwrap() in DXT5
ImageReturn ==
    /\ image.pc = "loop"
    /\ \/ image.i * BlockSize(fmt) >= Len(image.data)
       \/ Len(Chunk(image.data, BlockSize(fmt), image.i)) < BlockSize(fmt)
    /\ image' = [image EXCEPT
                   !.pc = "done",
                   !.status = IF FromRaw(image.width, image.height, image.buffer) THEN "Ok"
                              ELSE IF fmt = "DXT1" THEN "ImageDecode" ELSE "panic"]
    /\ UNCHANGED <<devars, fmt, block, pixels>>

NextImage == ImageAlloc \/ ImageChunk \/ ImageReturn

SpecImage == InitImage /\ [][NextImage]_vars

\* the pixel at column x of output row yo of the buffer
OutputPixel(x, yo) ==
    SubSeq(image.buffer, (yo * image.width + x) * 4 + 1, (yo * image.width + x) * 4 + 4)

\* the pixel at column col of row row of block number b of the data
BlockPixel(b, col, row) ==
    LET px == DecodeBlockOf(fmt, Chunk(image.data, BlockSize(fmt), b))[row * 4 + col]
    IN  <<px[1], px[2], px[3], px[4]>>

CeilDiv4(n) == IF n % 4 = 0 THEN n \div 4 ELSE (n \div 4) + 1

\* where the claim puts pixel (col, row) of block b: the output column and row
PlaceOf(b, col, row) ==
    <<(b % CeilDiv4(image.width)) * 4 + col,
      image.height - 1 - ((b \div CeilDiv4(image.width)) * 4 + row)>>

Placed(b, col, row) ==
    /\ (b % CeilDiv4(image.width)) * 4 + col < image.width
    /\ (b \div CeilDiv4(image.width)) * 4 + row < image.height

\* C11: while an image whose size fits is decoded, and when it has been
\* decoded, every block b taken so far has its pixel (col, row) at output
\* column block_x + col of output row height - 1 - (block_y + row), where
\* block_x = (b mod blocks_x) * 4, block_y = (b div blocks_x) * 4 and
\* blocks_x = ceil(width / 4), if that column is below width and
\* block_y + row below height; and every output pixel that is the place of
\* no pixel of a block taken so far is as it was allocated.
C11_BlockPlacement ==
    (image.pc \in {"loop", "done"} /\ image.status \in {"running", "Ok"} /\ ~image.wrapped) =>
       \A places \in {UNION {{<<PlaceOf(b, n % 4, n \div 4), b, n>> :
                                  n \in {m \in 0..15 : Placed(b, m % 4, m \div 4)}} :
                                b \in {c \in 0..(image.i - 1) : image.width > 0}}} :
          /\ Len(image.buffer) = image.width * image.height * 4
          /\ \A p \in places : OutputPixel(p[1][1], p[1][2]) = BlockPixel(p[2], p[3] % 4, p[3] \div 4)
          /\ \A x \in 0..(image.width - 1), yo \in 0..(image.height - 1) :
                (\A p \in places : p[1] # <<x, yo>>) => OutputPixel(x, yo) = <<0, 0, 0, 0>>

\* a 4x8 DXT1 image after its first block: the bottom four rows are filled,
\* the block's top row lowest, and the top four rows are untouched
C11_Witness ==
    /\ fmt = "DXT1" /\ image.pc = "loop" /\ image.i = 1
    /\ image.width = 4 /\ image.height = 8
    /\ OutputPixel(0, 7) = BlockPixel(0, 0, 0)
    /\ OutputPixel(3, 4) = BlockPixel(0, 3, 3)
    /\ BlockPixel(0, 0, 0) # BlockPixel(0, 0, 3)
    /\ \A k \in 1..64 : image.buffer[k] = 0
    /\ \E k \in 65..128 : image.buffer[k] # 0

\* C12: a decode of data whose last block is shorter than the block size
\* ends with the InvalidData error.
C12_ShortBlockInvalidData ==
    (image.pc = "done" /\ Len(image.data) % BlockSize(fmt) # 0) =>
        image.status = "InvalidData"

\* C13 as stated: the DXT1 block FF FF 00 00 FF FF FF FF decodes to sixteen
\* pixels (255,255,255,255), and the block with the endpoints swapped to
\* sixteen pixels (0,0,0,0).
C13_AllThreeWhite ==
    (fmt = "DXT1" /\ DOMAIN pixels # {}) =>
        /\ block = <<255, 255, 0, 0, 255, 255, 255, 255>> =>
              \A i \in 0..15 : pixels[i] = <<255, 255, 255, 255>>
        /\ block = <<0, 0, 255, 255, 255, 255, 255, 255>> =>
              \A i \in 0..15 : pixels[i] = <<0, 0, 0, 0>>

\* C13 amended: the DXT1 block FF FF 00 00 FF FF FF FF decodes to sixteen
\* pixels (85,85,85,255), the third of white that colour 3 is when c0 > c1,
\* and the block with the endpoints swapped to sixteen pixels (0,0,0,0).
C13_AllThreeThird ==
    (fmt = "DXT1" /\ DOMAIN pixels # {}) =>
        /\ block = <<255, 255, 0, 0, 255, 255, 255, 255>> =>
              \A i \in 0..15 : pixels[i] = <<85, 85, 85, 255>>
        /\ block = <<0, 0, 255, 255, 255, 255, 255, 255>> =>
              \A i \in 0..15 : pixels[i] = <<0, 0, 0, 0>>

C13_Witness ==
    /\ fmt = "DXT1" /\ DOMAIN pixels # {}
    /\ block = <<255, 255, 0, 0, 255, 255, 255, 255>>
    /\ pixels[0] = <<85, 85, 85, 255>> /\ pixels[15] = <<85, 85, 85, 255>>

\* C14: the buffer allocated has exactly width * height * 4 bytes, the
\* product of the numbers and not its low 32 bits, and no offset of a pixel
\* write has wrapped.
C14_ExactAllocation ==
    image.pc \in {"loop", "done"} =>
        /\ image.alloc # <<>>
        /\ image.alloc \o <<0, 0, 0, 0, 0, 0, 0, 0>> = ExactSize(image.width, image.height)
        /\ ~image.wrapped

\* C19: a decode of an image whose size in bytes fits in 32 bits ends with
\* an image or an error value, never with a panic.
C19_DecodeTotal ==
    (image.pc = "done"
       /\ \A k \in 5..12 : ExactSize(image.width, image.height)[k] = 0) =>
        image.status # "panic"

IsPrefix(a, b) == Len(a) <= Len(b) /\ SubSeq(b, 1, Len(a)) = a

SeqDelivered(f) ==
    /\ f.kind = "seq" /\ f.size >= 1 /\ f.index = f.size

\* C16: when the dispatch of a list node i returns a value and the final
\* element of the list has been decoded, the node index is
\* i + subtree_len(i) - 1, whether the receiver went on to ask for one more
\* element or stopped at the last one.
C16_SeqIndexAfterLast ==
    (ctl = "ret" /\ result = "ok" /\ SeqDelivered(last.frame)) =>
        index = last.node + get_level_length(nodes, last.node) - 1

\* a record access over a user-defined node that has no child
EmptyRecord(f) ==
    /\ f.kind = "struct"
    /\ NodeAt(nodes, f.node).type = "Base"
    /\ get_level_length(nodes, f.node) = 1

\* C17: the access of a record node without children serves no key and no
\* value (so no node after the record is decoded and no byte is read for
\* it) and raises no error of its own.
C17_EmptyRecordIsEmpty ==
    \A f \in Frames \cup {last.frame} :
       EmptyRecord(f) => (f.hist = <<>> /\ f.val # "NodeEof")

\* C18: a decode that has failed ends with the first error raised, and no
\* reader operation was performed after that error.
C18_StopsAtFirstError ==
    (ctl = "done" /\ errs # <<>>) => (result = errs[1] /\ late = 0)

\* the lengths n >= 0 whose four-byte field, followed by n bytes, ends at
\* offset pos of the slice
LengthsEndingAt(pos) ==
    {n \in 0..MaxBuf :
       /\ pos - n - 4 >= 0
       /\ DecodeI32(SubSeq(reader.data, pos - n - 3, pos - n), order) = n}

\* C20: an access whose count was read negative serves no element and no
\* entry, and a TypelessData payload is handed to the receiver only behind
\* a length that was read as a number >= 0.
C20_NegativeCountServesNothing ==
    /\ \A f \in Frames \cup {last.frame} :
          (f.kind \in {"seq", "map"} /\ f.count < 0) => f.hist = <<>>
    /\ (ctl = "ret" /\ last.visit.kind = "byte_buf") =>
          LengthsEndingAt(last.before) # {}

(***************************************************************************)
(* get_level_length on its own: any node sequence, whether or not it is a  *)
(* well-formed tree, and any index, in range or not.                       *)
(***************************************************************************)
MaxNodes == 5
MaxLevel == 2

LevelSeqs ==
    UNION {[1..n -> {Node(l, "UInt8") : l \in 0..MaxLevel}] : n \in 0..MaxNodes}

InitLevel ==
    /\ nodes \in LevelSeqs
    /\ order = "LittleEndian"
    /\ reader = [pos |-> 0, data |-> <<>>, hi |-> 0]
    /\ index = 0
    /\ stack = <<>>
    /\ ctl = "idle"
    /\ result = "none"
    /\ last = NoLast
    /\ errs = <<>>
    /\ late = 0
    /\ outcome = "running"
    /\ pass = NoPass
    /\ length = NoLength
    /\ fmt = "none" /\ block = <<>> /\ pixels = <<>> /\ image = NoImage

\* one call get_level_length(nodes, idx)
GetLevelLength ==
    /\ \E idx \in 0..(Len(nodes) + 1) :
         length' = [called |-> TRUE, idx |-> idx, len |-> get_level_length(nodes, idx)]
    /\ UNCHANGED <<nodes, order, reader, index, stack, ctl, result, last, errs, late,
                   outcome, pass, dxtvars>>

NextLevel == GetLevelLength

SpecLevel == InitLevel /\ [][NextLevel]_vars

\* the length of the run of nodes after node i that are deeper than node i:
\* the k for which the k nodes after i are all deeper and the one after them,
\* if there is one, is not
RunAfter(ns, i) ==
    CHOOSE k \in 0..(Len(ns) - i - 1) :
       /\ \A j \in 1..k : NodeAt(ns, i + j).level > NodeAt(ns, i).level
       /\ \/ i + k + 1 = Len(ns)
          \/ NodeAt(ns, i + k + 1).level <= NodeAt(ns, i).level

\* C21: get_level_length(nodes, idx) is 0 exactly when idx >= len(nodes);
\* at an index in range it is 1 plus the length of the longest run of
\* nodes from idx + 1 on whose level is strictly greater than that of
\* nodes[idx], so that it is at least 1 and idx + length - 1 is at least idx.
C21_LevelLength ==
    length.called =>
        /\ length.len = 0 <=> length.idx >= Len(nodes)
        /\ length.idx < Len(nodes) =>
              /\ length.len = 1 + RunAfter(nodes, length.idx)
              /\ length.len - 1 >= 0
              /\ length.idx + length.len - 1 >= length.idx

\* a call in the middle of the sequence whose run of deeper nodes is ended
\* by a node that is not deeper
C21_Witness ==
    /\ length.called
    /\ length.idx > 0 /\ length.len = 3
    /\ length.idx + length.len < Len(nodes)
    /\ NodeAt(nodes, length.idx + 1).level # NodeAt(nodes, length.idx + 2).level

====
